---- MODULE Spec2Model ----
(***************************************************************************)
(* Model of the sales-forecast backend: the forecasting engine             *)
(* (app/services/forecast_service.py), the spreadsheet data source         *)
(* (app/services/sheets_service.py) and the parameter and response schema  *)
(* (app/schemas/forecast.py).                                              *)
(*                                                                         *)
(* Calendar dates are day numbers.  Floating-point numbers are modelled    *)
(* exactly: a number is a rational num/den plus an optional margin term    *)
(* msign * 1.96 * sqrt(mnum/mden), or NaN / Infinity as IEEE division      *)
(* produces them.                                                          *)
(***************************************************************************)
EXTENDS Integers, Sequences, FiniteSets, TLC

----------------------------------------------------------------------------
(* Bounds of the model *)

\* longest history handed to the engine
MaxHist == 5
\* longest forecast range, in days after start_date
MaxSpan == 1
\* most data rows on the sheet
MaxRows == 5
MaxRequests == 2
MaxUsers == 4

(* Program constants *)

\* minimum number of historical points for the regression
MinRegressionPoints == 5
\* z_score = 1.96, in hundredths
ZScoreNum == 196
ZScoreDen == 100
\* look-back of get_forecasts, in days
BasicLookback == 90
\* look-back of generate_advanced_forecast, in days
AdvancedLookback == 180

\* the start_date of the modelled requests
StartDay == 200

----------------------------------------------------------------------------
(* Optional values *)

None == [some |-> FALSE, v |-> 0]
Some(x) == [some |-> TRUE, v |-> x]
NoneStr == [some |-> FALSE, v |-> ""]

----------------------------------------------------------------------------
(* Numbers *)

Abs(x) == IF x < 0 THEN -x ELSE x

RECURSIVE GCD(_, _)
GCD(a, b) == IF b = 0 THEN a ELSE GCD(b, a % b)

\* the float num/den in lowest terms (den > 0)
Fin(n, d) ==
  LET g == GCD(Abs(n), d)
  IN [kind |-> "fin", num |-> n \div g, den |-> d \div g,
      msign |-> 0, mnum |-> 0, mden |-> 1]

NaN == [kind |-> "nan", num |-> 0, den |-> 1, msign |-> 0, mnum |-> 0, mden |-> 1]
Inf(s) == [kind |-> "inf", num |-> s, den |-> 1, msign |-> 0, mnum |-> 0, mden |-> 1]
\* an absent Optional[float]
NoFloat == [kind |-> "none", num |-> 0, den |-> 1, msign |-> 0, mnum |-> 0, mden |-> 1]

FromInt(i) == Fin(i, 1)
Sign(x) == IF x > 0 THEN 1 ELSE IF x < 0 THEN -1 ELSE 0

IsFinite(a) == a.kind = "fin"

\* IEEE addition
FAdd(a, b) ==
  IF a.kind = "nan" \/ b.kind = "nan" THEN NaN
  ELSE IF a.kind = "inf" /\ b.kind = "inf"
       THEN IF a.num = b.num THEN a ELSE NaN
  ELSE IF a.kind = "inf" THEN a
  ELSE IF b.kind = "inf" THEN b
  ELSE Fin(a.num * b.den + b.num * a.den, a.den * b.den)

FNeg(a) ==
  IF a.kind = "fin" THEN Fin(-a.num, a.den)
  ELSE IF a.kind = "inf" THEN Inf(-a.num)
  ELSE a

FSub(a, b) == FAdd(a, FNeg(b))

\* IEEE multiplication
FMul(a, b) ==
  IF a.kind = "nan" \/ b.kind = "nan" THEN NaN
  ELSE IF a.kind = "inf" \/ b.kind = "inf"
       THEN IF Sign(a.num) * Sign(b.num) = 0 THEN NaN
            ELSE Inf(Sign(a.num) * Sign(b.num))
  ELSE Fin(a.num * b.num, a.den * b.den)

\* IEEE division of numpy scalars: 0/0 is NaN, x/0 is +-Infinity
FDiv(a, b) ==
  IF a.kind = "nan" \/ b.kind = "nan" THEN NaN
  ELSE IF a.kind = "inf" /\ b.kind = "inf" THEN NaN
  ELSE IF a.kind = "inf" THEN Inf(Sign(a.num) * (IF b.num < 0 THEN -1 ELSE 1))
  ELSE IF b.kind = "inf" THEN Fin(0, 1)
  ELSE IF b.num = 0
       THEN IF a.num = 0 THEN NaN ELSE Inf(Sign(a.num))
  ELSE Fin(a.num * b.den * Sign(b.num), a.den * Abs(b.num))

\* a + s * 1.96 * sqrt(v), for a variance v >= 0: the float a -/+ margin
WithMargin(a, s, v) ==
  IF a.kind = "nan" \/ v.kind = "nan" THEN NaN
  ELSE IF a.kind = "inf" /\ v.kind = "inf"
       THEN IF a.num = s THEN a ELSE NaN
  ELSE IF a.kind = "inf" THEN a
  ELSE IF v.kind = "inf" THEN Inf(s)
  ELSE IF v.num = 0 THEN a
  ELSE [a EXCEPT !.msign = s, !.mnum = v.num, !.mden = v.den]

\* a <= b on floats; any comparison with NaN is false.  Two numbers that
\* carry a margin term carry the same one (the same variance).
FLeq(a, b) ==
  IF a.kind \notin {"fin", "inf"} \/ b.kind \notin {"fin", "inf"} THEN FALSE
  ELSE IF a.kind = "inf" THEN a.num = -1 \/ (b.kind = "inf" /\ b.num = 1)
  ELSE IF b.kind = "inf" THEN b.num = 1
  ELSE LET d == a.msign - b.msign
           vn == IF a.msign # 0 THEN a.mnum ELSE b.mnum
           vd == IF a.msign # 0 THEN a.mden ELSE b.mden
           \* Y = b.base - a.base = yn / yd
           yn == b.num * a.den - a.num * b.den
           yd == a.den * b.den
           \* (d * 1.96)^2 * v  compared with  Y^2
           lhs == d * d * ZScoreNum * ZScoreNum * vn * yd * yd
           rhs == yn * yn * ZScoreDen * ZScoreDen * vd
       IN IF d = 0 \/ vn = 0 THEN yn >= 0
          ELSE IF d > 0 THEN yn >= 0 /\ lhs <= rhs
          ELSE yn >= 0 \/ lhs >= rhs

----------------------------------------------------------------------------
(* Sequences *)

RECURSIVE SumSeq(_)
SumSeq(s) == IF s = <<>> THEN Fin(0, 1) ELSE FAdd(Head(s), SumSeq(Tail(s)))

RECURSIVE MinOf(_)
MinOf(s) == IF Len(s) = 1 THEN s[1]
            ELSE LET m == MinOf(Tail(s)) IN IF s[1] < m THEN s[1] ELSE m

\* np.mean
Mean(s) == FDiv(SumSeq(s), FromInt(Len(s)))

----------------------------------------------------------------------------
(* app/schemas/forecast.py *)

\* ForecastType
BASIC == "basic"
ADVANCED == "advanced"
PREDICTIVE == "predictive"

\* ForecastParameters(...): the fields are type-checked only; the model
\* declares no validator, so every typed combination is accepted.
ForecastParametersAccepts(p) ==
  /\ p.start_date \in Int
  /\ p.end_date \in Int
  /\ p.forecast_type \in STRING
  /\ p.include_historical \in BOOLEAN

\* ForecastDataPoint(date=..., value=..., is_actual=False)
ForecastDataPoint(d, v) ==
  [date |-> d, value |-> v, confidence_lower |-> NoFloat,
   confidence_upper |-> NoFloat, is_actual |-> FALSE]

\* the response built with default parameters instead of the caller's
ForecastResponse_default_parameters(params, points, model, slope, intercept) ==
  [parameters |-> [params EXCEPT !.forecast_type = BASIC,
                                 !.confidence_level = None],
   data_points |-> points,
   metadata |-> [model_type |-> model, slope |-> slope, intercept |-> intercept,
                 data_points_count |-> Len(points)]]

\* ForecastResponse(parameters=..., data_points=..., metadata=...); id and
\* created_at are bookkeeping and carry no forecast content.
ForecastResponse(params, points, model, slope, intercept) ==
  [parameters |-> params,
   data_points |-> points,
   metadata |-> [model_type |-> model, slope |-> slope, intercept |-> intercept,
                 data_points_count |-> Len(points)]]

----------------------------------------------------------------------------
(* app/services/forecast_service.py: the engine *)

\* pd.date_range(start=start, end=end): the closed daily range, empty when
\* end precedes start
date_range(start, end) ==
  IF end < start THEN <<>>
  ELSE [i \in 1..(end - start + 1) |-> start + (i - 1)]

\* DataFrame.empty
IsEmpty(historical_data) == Len(historical_data) = 0

\* historical_data['value'] as floats
ValueColumn(historical_data) ==
  [i \in 1..Len(historical_data) |-> FromInt(historical_data[i].value)]

\* the basic strategy without its empty-history branch
basic_forecast_values_unguarded(historical_data, n) ==
  LET mean_value == Mean(ValueColumn(historical_data))
  IN [i \in 1..n |-> FMul(FromInt(1), mean_value)]

\* the basic strategy projecting the sum of the history instead of its mean
basic_forecast_values_sum(historical_data, n) ==
  IF IsEmpty(historical_data)
  THEN [i \in 1..n |-> FMul(FromInt(0), FromInt(1))]
  ELSE LET total == SumSeq(ValueColumn(historical_data))
       IN [i \in 1..n |-> FMul(FromInt(1), total)]

\* forecast_values of the basic strategy
basic_forecast_values(historical_data, n) ==
  IF IsEmpty(historical_data)
  THEN [i \in 1..n |-> FMul(FromInt(0), FromInt(1))]
  ELSE LET mean_value == Mean(ValueColumn(historical_data))
       IN [i \in 1..n |-> FMul(FromInt(1), mean_value)]

\* ForecastService._generate_basic_forecast; returns the list of responses
_generate_basic_forecast(historical_data, params) ==
  LET dr == date_range(params.start_date, params.end_date)
      forecast_values == basic_forecast_values(historical_data, Len(dr))
      data_points == [i \in 1..Len(dr) |-> ForecastDataPoint(dr[i], forecast_values[i])]
  IN << ForecastResponse(params, data_points, "simple_moving_average", NoFloat, NoFloat) >>

\* historical_data['days'] = (date - date.min()).dt.days
DaysColumn(historical_data) ==
  LET dates == [i \in 1..Len(historical_data) |-> historical_data[i].date]
      first == MinOf(dates)
  IN [i \in 1..Len(historical_data) |-> dates[i] - first]

\* np.sum((X - mean_x) * (y - mean_y)) with X of shape (n, 1) and y of shape
\* (n,): the product broadcasts to an n-by-n matrix, and the sum runs over
\* all of its entries, dx[i] * dy[j] for every i and j
BroadcastProductSum(dx, dy) ==
  SumSeq([k \in 1..(Len(dx) * Len(dy)) |->
            FMul(dx[((k - 1) \div Len(dy)) + 1], dy[((k - 1) % Len(dy)) + 1])])

\* slope and intercept as lines 151-158 compute them
Regression(historical_data) ==
  LET X == [i \in 1..Len(historical_data) |-> FromInt(DaysColumn(historical_data)[i])]
      y == ValueColumn(historical_data)
      mean_x == Mean(X)
      mean_y == Mean(y)
      dx == [i \in 1..Len(X) |-> FSub(X[i], mean_x)]
      dy == [i \in 1..Len(y) |-> FSub(y[i], mean_y)]
      slope == FDiv(BroadcastProductSum(dx, dy),
                    SumSeq([i \in 1..Len(dx) |-> FMul(dx[i], dx[i])]))
      intercept == FSub(mean_y, FMul(slope, mean_x))
  IN [slope |-> slope, intercept |-> intercept]

\* np.std(residuals) ** 2: the population variance of the fit residuals
ResidualVariance(historical_data, fit) ==
  LET X == [i \in 1..Len(historical_data) |-> FromInt(DaysColumn(historical_data)[i])]
      y == ValueColumn(historical_data)
      residuals == [i \in 1..Len(y) |->
                      FSub(y[i], FAdd(fit.intercept, FMul(fit.slope, X[i])))]
      m == Mean(residuals)
  IN Mean([i \in 1..Len(y) |->
             FMul(FSub(residuals[i], m), FSub(residuals[i], m))])

\* `if params.confidence_level:` -- the truth value of an Optional[float]
Truthy(opt) == opt.some /\ opt.v # 0

\* the regression branch of _generate_advanced_forecast (lines 147-208)
regression_forecast(historical_data, params) ==
  LET dr == date_range(params.start_date, params.end_date)
      fit == Regression(historical_data)
      first == MinOf([i \in 1..Len(historical_data) |-> historical_data[i].date])
      forecast_days == [i \in 1..Len(dr) |-> dr[i] - first]
      forecast_values == [i \in 1..Len(dr) |->
                            FAdd(fit.intercept, FMul(fit.slope, FromInt(forecast_days[i])))]
      withBounds == Truthy(params.confidence_level)
      variance == ResidualVariance(historical_data, fit)
      data_points ==
        [i \in 1..Len(dr) |->
           IF withBounds
           THEN [ForecastDataPoint(dr[i], forecast_values[i]) EXCEPT
                   !.confidence_lower = WithMargin(forecast_values[i], -1, variance),
                   !.confidence_upper = WithMargin(forecast_values[i], 1, variance)]
           ELSE ForecastDataPoint(dr[i], forecast_values[i])]
  IN << ForecastResponse(params, data_points, "linear_regression",
                         fit.slope, fit.intercept) >>

\* the guard of line 143 with its threshold off by one
TooFewPoints_off_by_one(historical_data) ==
  IsEmpty(historical_data) \/ Len(historical_data) < MinRegressionPoints - 1

\* the guard of line 143: not enough data for the regression
TooFewPoints(historical_data) ==
  IsEmpty(historical_data) \/ Len(historical_data) < MinRegressionPoints

\* the fallback keeping the regression's label on the basic projection
_generate_advanced_forecast_keeps_label(historical_data, params) ==
  IF TooFewPoints(historical_data)
  THEN LET r == _generate_basic_forecast(historical_data, params)
       IN << [r[1] EXCEPT !.metadata.model_type = "linear_regression"] >>
  ELSE regression_forecast(historical_data, params)

\* ForecastService._generate_advanced_forecast
_generate_advanced_forecast(historical_data, params) ==
  IF TooFewPoints(historical_data)
  THEN _generate_basic_forecast(historical_data, params)
  ELSE regression_forecast(historical_data, params)

\* the predictive method with a model of its own name
_generate_predictive_forecast_own_model(historical_data, params) ==
  LET r == _generate_advanced_forecast(historical_data, params)
  IN << [r[1] EXCEPT !.metadata.model_type = "predictive"] >>

\* ForecastService._generate_predictive_forecast
_generate_predictive_forecast(historical_data, params) ==
  _generate_advanced_forecast(historical_data, params)

\* the frame after line 148 assigned historical_data['days']: every row has
\* the new column
WithDaysColumn(historical_data) ==
  LET days == DaysColumn(historical_data)
  IN [i \in 1..Len(historical_data) |->
        [days |-> days[i]] @@ historical_data[i]]

\* the frame shifted in place to a zero baseline as well
FrameAfterAdvanced_rebased(historical_data) ==
  IF TooFewPoints(historical_data) THEN historical_data
  ELSE LET low == MinOf([i \in 1..Len(historical_data) |-> historical_data[i].value])
       IN [i \in 1..Len(historical_data) |->
             [value |-> historical_data[i].value - low] @@ historical_data[i]]

\* the caller's frame once _generate_advanced_forecast has returned: the
\* regression branch has written the 'days' column into it
FrameAfterAdvanced(historical_data) ==
  IF TooFewPoints(historical_data) THEN historical_data
  ELSE WithDaysColumn(historical_data)

\* the caller's frame once the engine method has returned
FrameAfter(m, historical_data) ==
  IF m \in {"advanced", "predictive"} THEN FrameAfterAdvanced(historical_data)
  ELSE historical_data

\* the engine method named m
EngineMethod(m, historical_data, params) ==
  IF m = "basic" THEN _generate_basic_forecast(historical_data, params)
  ELSE IF m = "advanced" THEN _generate_advanced_forecast(historical_data, params)
  ELSE _generate_predictive_forecast(historical_data, params)

----------------------------------------------------------------------------
(* app/services/sheets_service.py: the data source *)

\* a JSON cell of the sheet: a number or a string of digits
IntCell(i) == [kind |-> "int", v |-> i]
StrCell(i) == [kind |-> "str", v |-> i]

\* df['sales_rep_id'] == sales_rep_id, elementwise: a string never equals
\* an int
CellEqInt(cell, i) == cell.kind = "int" /\ cell.v = i

\* SheetsService._fetch_sheet_data: an HTTPException for a non-200 response,
\* [] when the body has no 'values' or an empty one, else one dict per data
\* row (the rows after the header row)
_fetch_sheet_data(sh) ==
  IF sh.status_code # 200
  THEN [ok |-> FALSE, status_code |-> sh.status_code, rows |-> <<>>]
  ELSE IF ~sh.has_values
  THEN [ok |-> TRUE, status_code |-> 200, rows |-> <<>>]
  ELSE [ok |-> TRUE, status_code |-> 200, rows |-> sh.rows]

RECURSIVE FilterRows(_, _, _, _, _)
\* the boolean-mask selections of lines 54-63, in sheet order
FilterRows(rows, start_date, end_date, sales_rep_id, category) ==
  IF rows = <<>> THEN <<>>
  ELSE LET r == Head(rows)
           keep == /\ r.date >= start_date
                   /\ r.date <= end_date
                   /\ (sales_rep_id.some => CellEqInt(r.sales_rep_id, sales_rep_id.v))
                   /\ (category.some => r.category = category.v)
           rest == FilterRows(Tail(rows), start_date, end_date, sales_rep_id, category)
       IN IF keep THEN <<r>> \o rest ELSE rest

\* the exception swallowed: an empty frame instead of the HTTPException
get_sales_data_swallow(sh, start_date, end_date, sales_rep_id, category) ==
  LET raw == _fetch_sheet_data(sh)
  IN IF ~raw.ok \/ raw.rows = <<>>
     THEN [ok |-> TRUE, status_code |-> 200, df |-> <<>>]
     ELSE [ok |-> TRUE, status_code |-> 200,
           df |-> FilterRows(raw.rows, start_date, end_date, sales_rep_id, category)]

\* SheetsService.get_sales_data: every exception of the body becomes an
\* HTTPException 500; pd.DataFrame([]) has no 'date' column, so df['date']
\* raises KeyError when the sheet has no data rows
get_sales_data(sh, start_date, end_date, sales_rep_id, category) ==
  LET raw == _fetch_sheet_data(sh)
  IN IF ~raw.ok
     THEN [ok |-> FALSE, status_code |-> 500, df |-> <<>>]
     ELSE IF raw.rows = <<>>
     THEN [ok |-> FALSE, status_code |-> 500, df |-> <<>>]
     ELSE [ok |-> TRUE, status_code |-> 200,
           df |-> FilterRows(raw.rows, start_date, end_date, sales_rep_id, category)]

----------------------------------------------------------------------------
(* app/services/forecast_service.py: the orchestration *)

\* the look-back of each entry point (lines 41 and 71)
Lookback(entry) ==
  IF entry = "get_forecasts" THEN BasicLookback ELSE AdvancedLookback

\* the fetch with a window that runs through start_date
FetchHistory_through_start(sh, entry, params) ==
  get_sales_data(sh, params.start_date - Lookback(entry), params.start_date,
                 params.sales_rep_id, params.category)

\* the fetch of lines 40-45 and 70-75
FetchHistory(sh, entry, params) ==
  get_sales_data(sh, params.start_date - Lookback(entry), params.start_date - 1,
                 params.sales_rep_id, params.category)

\* the engine method get_forecasts selects (lines 48-56)
SelectedMethod(params) ==
  IF params.forecast_type = BASIC THEN "basic"
  ELSE IF params.forecast_type = ADVANCED THEN "advanced"
  ELSE IF params.forecast_type = PREDICTIVE THEN "predictive"
  ELSE "basic"

\* the strategy selection sending every non-basic type to the regression
get_forecasts_strict(historical_data, params) ==
  IF params.forecast_type = BASIC
  THEN _generate_basic_forecast(historical_data, params)
  ELSE _generate_advanced_forecast(historical_data, params)

\* ForecastService.get_forecasts after the fetch: the strategy selection
\* of lines 47-56
get_forecasts(historical_data, params) ==
  IF params.forecast_type = BASIC
  THEN _generate_basic_forecast(historical_data, params)
  ELSE IF params.forecast_type = ADVANCED
  THEN _generate_advanced_forecast(historical_data, params)
  ELSE IF params.forecast_type = PREDICTIVE
  THEN _generate_predictive_forecast(historical_data, params)
  ELSE _generate_basic_forecast(historical_data, params)

\* the 180-day entry point selecting the strategy by forecast_type
generate_advanced_forecast_by_type(historical_data, params) ==
  get_forecasts(historical_data, params)

\* ForecastService.generate_advanced_forecast after the fetch (line 77)
generate_advanced_forecast(historical_data, params) ==
  _generate_advanced_forecast(historical_data, params)

----------------------------------------------------------------------------
(* State *)

VARIABLES
  sheet,     \* the spreadsheet behind the Google Sheets API
  args,      \* the keyword arguments a caller passes to ForecastParameters
  phase,     \* "args", "constructed", "rejected" (ValidationError),
             \* "fetched", "failed" (HTTPException) or "done"
  entry,     \* the ForecastService entry point called, "none" before
  history,   \* the historical series handed to the engine
  method,    \* the engine method that ran, "none" before
  result,    \* the list of ForecastResponse returned, <<>> before
  error,     \* the status code of the HTTPException raised, 0 if none
  previous,  \* the list an earlier run on the same frame returned
  token,     \* the bearer token of the HTTP request
  current_user, \* the user get_current_user resolved, None before
  fetches,   \* the number of get_sales_data calls made
  reqs,      \* the concurrent requests in flight, by request id
  users,     \* UserService._users: the stored user records by id
  op         \* the last UserService or auth-endpoint call and its outcome

authVars == <<token, current_user>>

userVars == <<users, op>>

vars == <<sheet, args, phase, entry, history, method, result, error,
          previous, token, current_user, fetches, reqs,
          users, op>>

----------------------------------------------------------------------------
(* Inputs *)

HistDates == {StartDay - 2, StartDay - 1}
HistValues == {1, 4}

HistRow(d, v) ==
  [date |-> d, value |-> v, sales_rep_id |-> IntCell(1), category |-> "a"]
HistRows == {HistRow(d, v) : d \in HistDates, v \in HistValues}

SeqsUpTo(S, n) == UNION {[1..k -> S] : k \in 0..n}

\* confidence_level in hundredths
ConfidenceLevels == {None, Some(0), Some(95)}
ForecastTypes == {BASIC, ADVANCED, PREDICTIVE, "weekly"}

Params(e, t, c, rep, cat) ==
  [start_date |-> StartDay, end_date |-> e, sales_rep_id |-> rep,
   category |-> cat, forecast_type |-> t, include_historical |-> FALSE,
   confidence_level |-> c]

EngineParams ==
  {Params(e, t, c, None, NoneStr) :
     e \in (StartDay - 2)..(StartDay + MaxSpan),
     t \in {BASIC, ADVANCED}, c \in ConfidenceLevels}

\* the data rows a sheet is made of: two inside the 90-day window, one
\* inside the 180-day window only, whose sales_rep_id cell is a string.
\* The date cell is the day it parses to and the value cell is a number, as
\* in the frames of tests/services/test_forecast_service.py.
SheetRows ==
  { [date |-> StartDay - 1, value |-> 1, sales_rep_id |-> IntCell(1), category |-> "a"],
    [date |-> StartDay - 2, value |-> 4, sales_rep_id |-> IntCell(2), category |-> "b"],
    [date |-> StartDay - 100, value |-> 4, sales_rep_id |-> StrCell(1), category |-> "a"] }

Sheet(code, hasValues, rows) ==
  [status_code |-> code, has_values |-> hasValues, rows |-> rows]

\* sheets: an API failure, a body without 'values', a header row followed by
\* up to MaxRows data rows
Sheets ==
  {Sheet(500, FALSE, <<>>), Sheet(200, FALSE, <<>>)}
    \cup {Sheet(200, TRUE, rows) : rows \in SeqsUpTo(SheetRows, MaxRows)}

NoSheet == Sheet(200, FALSE, <<>>)

\* confidence levels inside and outside [0.0, 1.0]
SchemaConfidenceLevels == ConfidenceLevels \cup {Some(150), Some(0 - 10)}

SchemaParams ==
  {Params(e, t, c, None, NoneStr) :
     e \in {StartDay, StartDay + MaxSpan},
     t \in ForecastTypes, c \in SchemaConfidenceLevels}

RerunParams ==
  {Params(StartDay + MaxSpan, ADVANCED, c, None, NoneStr) : c \in {None, Some(95)}}

ServiceParams ==
  {Params(StartDay + 1, t, c, rep, cat) :
     t \in ForecastTypes, c \in {None, Some(95)},
     rep \in {None, Some(1)}, cat \in {NoneStr, Some("a")}}

\* a sheet with a row on each side of every edge of the two windows
WindowSheets ==
  LET row(d, rep, cat) ==
        [date |-> d, value |-> 1, sales_rep_id |-> IntCell(rep), category |-> cat]
      edges == << row(StartDay, 1, "a"), row(StartDay - 1, 1, "a"),
                  row(StartDay - BasicLookback, 1, "a"),
                  row(StartDay - BasicLookback - 1, 1, "a"),
                  row(StartDay - AdvancedLookback, 1, "a"),
                  row(StartDay - AdvancedLookback - 1, 1, "a"),
                  row(StartDay - 1, 2, "b"), row(StartDay + 1, 2, "a") >>
  IN {Sheet(200, TRUE, edges),
      Sheet(200, TRUE, [i \in 1..Len(edges) |-> edges[Len(edges) + 1 - i]])}

\* requests in flight at the same time
Requests == 1..MaxRequests

EntryPoints == {"get_forecasts", "generate_advanced_forecast"}

\* parameters whose results differ on the sheets below: with and without
\* the sales-rep filter, with and without the regression and its bounds
ConcParams ==
  {Params(StartDay + 1, ADVANCED, Some(95), None, NoneStr),
   Params(StartDay + 1, BASIC, Some(95), Some(1), NoneStr)}

ConcSheets ==
  LET r1 == [date |-> StartDay - 1, value |-> 1, sales_rep_id |-> IntCell(1), category |-> "a"]
      r2 == [date |-> StartDay - 2, value |-> 4, sales_rep_id |-> IntCell(2), category |-> "b"]
  IN {Sheet(500, FALSE, <<>>),
      Sheet(200, TRUE, <<r1, r2, r1, r2, r1>>),
      Sheet(200, TRUE, <<r2, r2, r2, r2, r1>>)}

\* a request that has not entered the service yet
NewRequest ==
  [pc |-> "new", entry |-> "none", params |-> Params(StartDay, BASIC, None, None, NoneStr),
   history |-> <<>>, result |-> <<>>, error |-> 0, started |-> 0, finished |-> 0]

(* Bearer tokens and the user store *)

\* settings.SECRET_KEY, the key the application signs and verifies with
SECRET_KEY == "SECRET_KEY"

\* the ids UserService.__init__ seeds its store with
UserIds == {1, 2, 3}

\* a 'sub' claim: a JSON string or a JSON number
SubStr(v) == [kind |-> "str", v |-> v]
SubInt(v) == [kind |-> "int", v |-> v]

\* a JWT: the key it was signed with, whether its 'exp' has passed, its
\* 'sub' claim, and whether 'exp' is a number with a fractional part
Token(key, expired, sub, exp_fractional) ==
  [key |-> key, expired |-> expired, sub |-> sub, exp_fractional |-> exp_fractional]

\* a request without a bearer token
NoToken == Token("", FALSE, [kind |-> "none", v |-> 0], FALSE)

\* jwt.decode(token, settings.SECRET_KEY, algorithms=["HS256"]): the
\* signature, the expiry, and the rule that 'sub' is a string
jwt_decode(t) ==
  t.key = SECRET_KEY /\ ~t.expired /\ t.sub.kind = "str"

\* TokenPayload(**payload): sub and exp must be integers; a numeric string
\* is taken as its number, a number with a fractional part is refused
TokenPayloadAccepts(t) ==
  t.sub.kind \in {"str", "int"} /\ ~t.exp_fractional

\* UserService.get_by_id
get_by_id(user_id) == IF user_id \in UserIds THEN Some(user_id) ELSE None

\* the dependency returning whatever subject a valid token names
get_current_user_any_subject(t) ==
  IF ~(jwt_decode(t) /\ TokenPayloadAccepts(t))
  THEN [ok |-> FALSE, status_code |-> 401, user |-> None]
  ELSE [ok |-> TRUE, status_code |-> 200, user |-> Some(t.sub.v)]

\* get_current_user (deps.py:17-48)
get_current_user(t) ==
  IF ~(jwt_decode(t) /\ TokenPayloadAccepts(t))
  THEN [ok |-> FALSE, status_code |-> 401, user |-> None]
  ELSE LET user == get_by_id(t.sub.v)
       IN IF ~user.some
          THEN [ok |-> FALSE, status_code |-> 401, user |-> None]
          ELSE [ok |-> TRUE, status_code |-> 200, user |-> user]

(* app/schemas/user.py and app/services/user_service.py *)

ADMIN == "admin"
EDITOR == "editor"
VIEWER == "viewer"

UserRoles == {ADMIN, EDITOR, VIEWER}

\* a JSON null in a string-valued field
Null == "null"

\* pwd_context.hash / pwd_context.verify: the hash determines the password
\* and is not the password
_get_password_hash(password) == <<"bcrypt", password>>

_verify_password(plain_password, hashed_password) ==
  hashed_password = _get_password_hash(plain_password)

\* a stored record; full_name, created_at and updated_at are bookkeeping
UserRecord(id, email, password, is_active, role) ==
  [id |-> id, email |-> email, hashed_password |-> _get_password_hash(password),
   is_active |-> is_active, role |-> role, is_admin |-> (role = ADMIN)]

\* the store UserService.__init__ builds (lines 24-62)
SeedUsers ==
  (1 :> UserRecord(1, "admin@example.com", "adminpassword", TRUE, ADMIN))
    @@ (2 :> UserRecord(2, "editor@example.com", "editorpassword", TRUE, EDITOR))
    @@ (3 :> UserRecord(3, "viewer@example.com", "viewerpassword", TRUE, VIEWER))

\* User(**user_data): email must be an address, role a UserRole
UserAccepts(user_data) ==
  /\ user_data.email # Null
  /\ user_data.role \in UserRoles
  /\ user_data.is_active \in BOOLEAN

\* the first stored record with the email, in insertion order (ids ascend)
FirstWithEmail(store, email) ==
  LET ids == {i \in DOMAIN store : store[i].email = email}
  IN IF ids = {} THEN 0
     ELSE CHOOSE i \in ids : \A j \in ids : i <= j

\* UserService.get_by_email: [found, raised, user]; raised when the record
\* found fails User validation
get_by_email(store, email) ==
  LET i == FirstWithEmail(store, email)
  IN IF i = 0 THEN [found |-> FALSE, raised |-> FALSE, id |-> 0]
     ELSE IF ~UserAccepts(store[i]) THEN [found |-> FALSE, raised |-> TRUE, id |-> i]
     ELSE [found |-> TRUE, raised |-> FALSE, id |-> i]

\* authentication by the email alone
authenticate_by_email_only(store, email, password) ==
  LET user == get_by_email(store, email)
  IN IF user.raised THEN [ok |-> FALSE, raised |-> TRUE, id |-> 0]
     ELSE IF ~user.found THEN [ok |-> FALSE, raised |-> FALSE, id |-> 0]
     ELSE [ok |-> TRUE, raised |-> FALSE, id |-> user.id]

\* UserService.authenticate (lines 170-193)
authenticate(store, email, password) ==
  LET user == get_by_email(store, email)
  IN IF user.raised THEN [ok |-> FALSE, raised |-> TRUE, id |-> 0]
     ELSE IF ~user.found THEN [ok |-> FALSE, raised |-> FALSE, id |-> 0]
     ELSE IF ~_verify_password(password, store[user.id].hashed_password)
          THEN [ok |-> FALSE, raised |-> FALSE, id |-> 0]
     ELSE [ok |-> TRUE, raised |-> FALSE, id |-> user.id]

\* UserService.create_access_token: "sub" is the integer user id, "exp" is
\* expire.timestamp(), a float that is whole only at microsecond 0
create_access_token(user_id, exp_fractional) ==
  Token(SECRET_KEY, FALSE, SubInt(user_id), exp_fractional)

\* UserService.create_user (lines 96-131): the duplicate check, the next
\* id, the write to the store
create_user(store, user_in) ==
  LET existing_user == get_by_email(store, user_in.email)
      user_id == IF DOMAIN store = {} THEN 1
                 ELSE (CHOOSE i \in DOMAIN store : \A j \in DOMAIN store : j <= i) + 1
  IN IF existing_user.raised
     THEN [status_code |-> 500, detail |-> "ValidationError", store |-> store]
     ELSE IF existing_user.found
     THEN [status_code |-> 400, detail |-> "Email already registered", store |-> store]
     ELSE [status_code |-> 200, detail |-> "",
           store |-> store @@ (user_id :> UserRecord(user_id, user_in.email, user_in.password,
                                                    user_in.is_active, user_in.role))]

\* UserService.update_user (lines 133-168): the fields set in user_in are
\* written into the stored record, which is validated only afterwards
update_user(store, user_id, user_in) ==
  IF user_id \notin DOMAIN store
  THEN [status_code |-> 404, detail |-> "User not found", store |-> store]
  ELSE LET update_data == user_in
           old == store[user_id]
           written == [f \in DOMAIN old |->
                         IF f = "hashed_password" /\ "password" \in DOMAIN update_data
                         THEN _get_password_hash(update_data.password)
                         ELSE IF f \in DOMAIN update_data THEN update_data[f]
                         ELSE old[f]]
           user_data == IF "role" \in DOMAIN update_data
                        THEN [written EXCEPT !.is_admin = (written.role = ADMIN)]
                        ELSE written
           stored == [store EXCEPT ![user_id] = user_data]
       IN IF UserAccepts(user_data)
          THEN [status_code |-> 200, detail |-> "", store |-> stored]
          ELSE [status_code |-> 500, detail |-> "ValidationError", store |-> stored]

\* the outcome of a call: its arguments, the HTTP status and detail, and
\* the token issued if any
Outcome(name, input, status_code, detail, issued) ==
  [name |-> name, input |-> input, status_code |-> status_code,
   detail |-> detail, issued |-> issued]

NoOp == Outcome("none", <<>>, 0, "", NoToken)

\* registrations: a new address or a taken one, active or not
UserCreates ==
  {[email |-> e, password |-> "newpassword", is_active |-> a, role |-> VIEWER] :
     e \in {"new@example.com", "admin@example.com"}, a \in BOOLEAN}

\* updates: user_in.dict(exclude_unset=True) holds only the fields set,
\* and a field may be set to None
UserUpdates ==
  {[email |-> "admin@example.com"], [role |-> Null], [is_active |-> FALSE],
   [password |-> "changedpassword"]}

\* ids update_user is called with: a seeded user, a registered one, none
UpdatedIds == {2, 4, 9}

\* login forms: a stored address, a registered one, an unknown one
LoginForms ==
  {[username |-> e, password |-> pw] :
     e \in {"admin@example.com", "new@example.com", "nobody@example.com"},
     pw \in {"adminpassword", "newpassword"}}

\* tokens: signed with the application's key or another one, expired or
\* not, naming a stored user or an unknown one, as the bearer header or absent
Tokens ==
  {Token(k, x, sub, f) :
     k \in {SECRET_KEY, "other-key"}, x \in BOOLEAN,
     sub \in {SubStr(1), SubStr(9), SubInt(1)}, f \in BOOLEAN}
    \cup {NoToken}

\* bearer tokens presented to POST /auth/refresh
RefreshTokens ==
  {Token(SECRET_KEY, FALSE, SubStr(1), FALSE),
   Token(SECRET_KEY, FALSE, SubStr(2), FALSE),
   NoToken}

\* the parameters the endpoints hand to the service
AuthParams ==
  {Params(StartDay + 1, BASIC, None, rep, NoneStr) : rep \in {None, Some(1)}}

----------------------------------------------------------------------------
(* Actions *)

\* params = ForecastParameters(**args)
Construct ==
  /\ phase = "args"
  /\ phase' = IF ForecastParametersAccepts(args) THEN "constructed" ELSE "rejected"
  /\ UNCHANGED <<userVars, sheet, args, entry, history, method, result, error,
               previous, authVars, fetches, reqs>>

\* await self._generate_basic_forecast(historical_data, params)
RunBasic ==
  /\ phase = "constructed"
  /\ result' = _generate_basic_forecast(history, args)
  /\ history' = FrameAfter("basic", history)
  /\ method' = "basic"
  /\ phase' = "done"
  /\ UNCHANGED <<userVars, sheet, args, entry, error, previous, authVars, fetches, reqs>>

\* await self._generate_advanced_forecast(historical_data, params)
RunAdvanced ==
  /\ phase = "constructed"
  /\ result' = _generate_advanced_forecast(history, args)
  /\ history' = FrameAfter("advanced", history)
  /\ method' = "advanced"
  /\ phase' = "done"
  /\ UNCHANGED <<userVars, sheet, args, entry, error, previous, authVars, fetches, reqs>>

\* await self._generate_predictive_forecast(historical_data, params)
RunPredictive ==
  /\ phase = "constructed"
  /\ result' = _generate_predictive_forecast(history, args)
  /\ history' = FrameAfter("predictive", history)
  /\ method' = "predictive"
  /\ phase' = "done"
  /\ UNCHANGED <<userVars, sheet, args, entry, error, previous, authVars, fetches, reqs>>

\* the service call fetching a second time after a failed fetch
Call_retrying(e) ==
  /\ phase = "constructed"
  /\ entry' = e
  /\ LET fetched == FetchHistory(sheet, e, args)
     IN IF fetched.ok
        THEN /\ history' = fetched.df
             /\ phase' = "fetched"
             /\ error' = 0
             /\ fetches' = fetches + 1
        ELSE /\ history' = <<>>
             /\ phase' = "failed"
             /\ error' = fetched.status_code
             /\ fetches' = fetches + 2
  /\ UNCHANGED <<userVars, sheet, args, method, result, previous, authVars, reqs>>

\* a call of get_forecasts or generate_advanced_forecast up to the return of
\* the awaited get_sales_data, whose HTTPException propagates to the caller
Call(e) ==
  /\ phase = "constructed"
  /\ entry' = e
  /\ LET fetched == FetchHistory(sheet, e, args)
     IN IF fetched.ok
        THEN /\ history' = fetched.df
             /\ phase' = "fetched"
             /\ error' = 0
        ELSE /\ history' = <<>>
             /\ phase' = "failed"
             /\ error' = fetched.status_code
  /\ fetches' = fetches + 1
  /\ UNCHANGED <<userVars, sheet, args, method, result, previous, authVars, reqs>>

CallGetForecasts == Call("get_forecasts")

CallGenerateAdvancedForecast == Call("generate_advanced_forecast")

\* get_forecasts from the fetched history to its return (lines 47-56)
ReturnGetForecasts ==
  /\ phase = "fetched"
  /\ entry = "get_forecasts"
  /\ result' = get_forecasts(history, args)
  /\ history' = FrameAfter(SelectedMethod(args), history)
  /\ method' = SelectedMethod(args)
  /\ phase' = "done"
  /\ UNCHANGED <<userVars, sheet, args, entry, error, previous, authVars, fetches, reqs>>

\* generate_advanced_forecast from the fetched history to its return (line 77)
ReturnGenerateAdvancedForecast ==
  /\ phase = "fetched"
  /\ entry = "generate_advanced_forecast"
  /\ result' = generate_advanced_forecast(history, args)
  /\ history' = FrameAfter("advanced", history)
  /\ method' = "advanced"
  /\ phase' = "done"
  /\ UNCHANGED <<userVars, sheet, args, entry, error, previous, authVars, fetches, reqs>>

----------------------------------------------------------------------------
(* The engine applied to a history and a parameter set *)

EngineInit ==
  /\ sheet = NoSheet
  /\ args \in EngineParams
  /\ phase = "args"
  /\ entry = "none"
  /\ history \in SeqsUpTo(HistRows, MaxHist)
  /\ method = "none"
  /\ result = <<>>
  /\ error = 0
  /\ previous = <<>>
  /\ token = NoToken
  /\ current_user = None
  /\ fetches = 0
  /\ reqs = <<>>
  /\ users = SeedUsers
  /\ op = NoOp

EngineNext == Construct \/ RunBasic \/ RunAdvanced \/ RunPredictive

EngineSpec == EngineInit /\ [][EngineNext]_vars

(* The schema applied to arbitrary keyword arguments *)

SchemaInit ==
  /\ sheet = NoSheet
  /\ args \in SchemaParams
  /\ phase = "args"
  /\ entry = "none"
  /\ history = <<>>
  /\ method = "none"
  /\ result = <<>>
  /\ error = 0
  /\ previous = <<>>
  /\ token = NoToken
  /\ current_user = None
  /\ fetches = 0
  /\ reqs = <<>>
  /\ users = SeedUsers
  /\ op = NoOp

SchemaSpec == SchemaInit /\ [][EngineNext]_vars

(* The engine called a second time on the frame it was given before *)

RerunInit ==
  /\ sheet = NoSheet
  /\ args \in RerunParams
  /\ phase = "args"
  /\ entry = "none"
  /\ history \in SeqsUpTo(HistRows, MaxHist)
  /\ method = "none"
  /\ result = <<>>
  /\ error = 0
  /\ previous = <<>>
  /\ token = NoToken
  /\ current_user = None
  /\ fetches = 0
  /\ reqs = <<>>
  /\ users = SeedUsers
  /\ op = NoOp

\* the same engine method called again with the same frame and parameters
Rerun ==
  /\ phase = "done"
  /\ entry = "none"
  /\ previous' = result
  /\ result' = EngineMethod(method, history, args)
  /\ history' = FrameAfter(method, history)
  /\ phase' = "rerun"
  /\ UNCHANGED <<userVars, sheet, args, entry, method, error, authVars, fetches, reqs>>

\* each engine method called once with the regression's parameters
MethodsSpec == RerunInit /\ [][EngineNext]_vars

RerunNext == Construct \/ RunBasic \/ RunAdvanced \/ RunPredictive \/ Rerun

RerunSpec == RerunInit /\ [][RerunNext]_vars

(* The forecast service over the sheet *)

Init ==
  /\ sheet \in Sheets
  /\ args \in ServiceParams
  /\ phase = "args"
  /\ entry = "none"
  /\ history = <<>>
  /\ method = "none"
  /\ result = <<>>
  /\ error = 0
  /\ previous = <<>>
  /\ token = NoToken
  /\ current_user = None
  /\ fetches = 0
  /\ reqs = <<>>
  /\ users = SeedUsers
  /\ op = NoOp

Next ==
  \/ Construct
  \/ CallGetForecasts
  \/ CallGenerateAdvancedForecast
  \/ ReturnGetForecasts
  \/ ReturnGenerateAdvancedForecast

Spec == Init /\ [][Next]_vars

(* The forecast service over a sheet with rows at the window edges *)

WindowInit ==
  /\ sheet \in WindowSheets
  /\ args \in ServiceParams
  /\ phase = "args"
  /\ entry = "none"
  /\ history = <<>>
  /\ method = "none"
  /\ result = <<>>
  /\ error = 0
  /\ previous = <<>>
  /\ token = NoToken
  /\ current_user = None
  /\ fetches = 0
  /\ reqs = <<>>
  /\ users = SeedUsers
  /\ op = NoOp

WindowSpec == WindowInit /\ [][Next]_vars

(* A request to a forecast endpoint, from its bearer token on *)

\* Depends(get_current_user), resolved before the endpoint body runs
Authenticate ==
  /\ phase = "request"
  /\ LET auth == get_current_user(token)
     IN IF auth.ok
        THEN /\ current_user' = auth.user
             /\ phase' = "args"
             /\ error' = 0
        ELSE /\ current_user' = None
             /\ phase' = "failed"
             /\ error' = auth.status_code
  /\ UNCHANGED <<userVars, sheet, args, entry, history, method, result, previous,
               token, fetches, reqs>>

AuthInit ==
  /\ sheet \in ConcSheets
  /\ args \in AuthParams
  /\ phase = "request"
  /\ entry = "none"
  /\ history = <<>>
  /\ method = "none"
  /\ result = <<>>
  /\ error = 0
  /\ previous = <<>>
  /\ token \in Tokens
  /\ current_user = None
  /\ fetches = 0
  /\ reqs = <<>>
  /\ users = SeedUsers
  /\ op = NoOp

AuthNext ==
  \/ Authenticate
  \/ Construct
  \/ CallGetForecasts
  \/ CallGenerateAdvancedForecast
  \/ ReturnGetForecasts
  \/ ReturnGenerateAdvancedForecast

AuthSpec == AuthInit /\ [][AuthNext]_vars

(* The auth endpoints over a UserService *)

\* UserService.create_user
CreateUser ==
  /\ Cardinality(DOMAIN users) < MaxUsers
  /\ \E user_in \in UserCreates :
       LET r == create_user(users, user_in)
       IN /\ users' = r.store
          /\ op' = Outcome("create_user", user_in, r.status_code, r.detail, NoToken)
  /\ UNCHANGED <<sheet, args, phase, entry, history, method, result, error,
               previous, authVars, fetches, reqs>>

\* POST /auth/login (auth.py:9-31)
Login ==
  /\ \E form_data \in LoginForms, exp_fractional \in BOOLEAN :
       LET user == authenticate(users, form_data.username, form_data.password)
       IN op' = IF user.raised
                THEN Outcome("login", form_data, 500, "ValidationError", NoToken)
                ELSE IF ~user.ok
                THEN Outcome("login", form_data, 401, "Incorrect email or password", NoToken)
                ELSE IF ~users[user.id].is_active
                THEN Outcome("login", form_data, 400, "Inactive user", NoToken)
                ELSE Outcome("login", form_data, 200, "",
                             create_access_token(user.id, exp_fractional))
  /\ UNCHANGED <<sheet, args, phase, entry, history, method, result, error,
               previous, authVars, fetches, reqs, users>>

\* POST /auth/refresh (auth.py:34-42): current_user_id is Depends(lambda: 0)
Refresh ==
  /\ \E t \in RefreshTokens, exp_fractional \in BOOLEAN :
       LET current_user_id == 0
       IN op' = Outcome("refresh", [token |-> t], 200, "",
                        create_access_token(current_user_id, exp_fractional))
  /\ UNCHANGED <<sheet, args, phase, entry, history, method, result, error,
               previous, authVars, fetches, reqs, users>>

\* the token just issued, presented as the bearer token of a request
Present ==
  /\ op.name \in {"login", "refresh"}
  /\ op.status_code = 200
  /\ LET auth == get_current_user(op.issued)
     IN /\ token' = op.issued
        /\ current_user' = auth.user
        /\ op' = Outcome("get_current_user", [token |-> op.issued], auth.status_code,
                         IF auth.ok THEN "" ELSE "Could not validate credentials",
                         NoToken)
  /\ UNCHANGED <<sheet, args, phase, entry, history, method, result, error,
               previous, fetches, reqs, users>>

LoginInit ==
  /\ sheet = NoSheet
  /\ args = Params(StartDay, BASIC, None, None, NoneStr)
  /\ phase = "serving"
  /\ entry = "none"
  /\ history = <<>>
  /\ method = "none"
  /\ result = <<>>
  /\ error = 0
  /\ previous = <<>>
  /\ token = NoToken
  /\ current_user = None
  /\ fetches = 0
  /\ reqs = <<>>
  /\ users = SeedUsers
  /\ op = NoOp

LoginNext == CreateUser \/ Login \/ Refresh \/ Present

LoginSpec == LoginInit /\ [][LoginNext]_vars

(* A UserService instance under create_user and update_user *)

\* UserService.update_user
UpdateUser ==
  /\ \E user_id \in UpdatedIds, user_in \in UserUpdates :
       LET r == update_user(users, user_id, user_in)
       IN /\ users' = r.store
          /\ op' = Outcome("update_user", [user_id |-> user_id, user_in |-> user_in],
                           r.status_code, r.detail, NoToken)
  /\ UNCHANGED <<sheet, args, phase, entry, history, method, result, error,
               previous, authVars, fetches, reqs>>

UserNext == CreateUser \/ UpdateUser

UserSpec == LoginInit /\ [][UserNext]_vars

(* Several requests in flight, interleaving at the await of the fetch *)

\* the call's own arguments when the coroutine resumes: params and
\* current_user are parameters of the call, not attributes of the service
ParamsAtResume_on_service(rs, i) ==
  LET waiting == {j \in Requests : rs[j].pc = "awaiting"}
      latest == CHOOSE j \in waiting : \A k \in waiting : rs[k].started <= rs[j].started
  IN rs[latest].params

ParamsAtResume(rs, i) == rs[i].params

\* the engine method a call runs once its history is there
MethodFor(e, params) ==
  IF e = "get_forecasts" THEN SelectedMethod(params) ELSE "advanced"

\* get_forecasts / generate_advanced_forecast up to the await of the HTTP
\* request of _fetch_sheet_data
Start(i) ==
  /\ reqs[i].pc = "new"
  /\ \E e \in EntryPoints, p \in ConcParams :
       reqs' = [reqs EXCEPT ![i] = [@ EXCEPT !.pc = "awaiting", !.entry = e,
                                             !.params = p, !.started = fetches + 1]]
  /\ fetches' = fetches + 1
  /\ UNCHANGED <<userVars, sheet, args, phase, entry, history, method, result, error,
               previous, authVars>>

\* from the HTTP response to the return of the call: the frame is built,
\* filtered and handed to the engine without another suspension
Resume(i) ==
  /\ reqs[i].pc = "awaiting"
  /\ LET e == reqs[i].entry
         p == ParamsAtResume(reqs, i)
         fetched == FetchHistory(sheet, e, p)
         nth == Cardinality({j \in Requests : reqs[j].pc \in {"done", "failed"}}) + 1
     IN reqs' = [reqs EXCEPT ![i] =
                   IF fetched.ok
                   THEN [@ EXCEPT !.pc = "done",
                                  !.history = FrameAfter(MethodFor(e, p), fetched.df),
                                  !.result = IF e = "get_forecasts"
                                             THEN get_forecasts(fetched.df, p)
                                             ELSE generate_advanced_forecast(fetched.df, p),
                                  !.finished = nth]
                   ELSE [@ EXCEPT !.pc = "failed", !.error = fetched.status_code,
                                  !.finished = nth]]
  /\ UNCHANGED <<userVars, sheet, args, phase, entry, history, method, result, error,
               previous, authVars, fetches>>

ConcInit ==
  /\ sheet \in ConcSheets
  /\ args = Params(StartDay, BASIC, None, None, NoneStr)
  /\ phase = "serving"
  /\ entry = "none"
  /\ history = <<>>
  /\ method = "none"
  /\ result = <<>>
  /\ error = 0
  /\ previous = <<>>
  /\ token = NoToken
  /\ current_user = None
  /\ fetches = 0
  /\ reqs = [i \in Requests |-> NewRequest]
  /\ users = SeedUsers
  /\ op = NoOp

ConcNext == \E i \in Requests : Start(i) \/ Resume(i)

ConcSpec == ConcInit /\ [][ConcNext]_vars

----------------------------------------------------------------------------
(* Properties of the engine *)

Points == result[1].data_points

SameDates(h) == \A i, j \in 1..Len(h) : h[i].date = h[j].date

\* C1: for every accepted parameter set, every method and every history,
\* data_points has (end_date - start_date).days + 1 entries and the i-th
\* entry's date is start_date + i days.
C1_ClosedDailyRange ==
  phase = "done" =>
    /\ Len(result) = 1
    /\ Len(Points) = args.end_date - args.start_date + 1
    /\ \A i \in 1..Len(Points) : Points[i].date = args.start_date + (i - 1)

\* C2: ForecastParameters with end_date < start_date is rejected at
\* construction, so no forecast runs on such parameters.
C2_EndBeforeStartRejected ==
  args.end_date < args.start_date => phase \in {"args", "rejected"}

\* C3: when the slope's denominator is zero (at least 5 points, all on one
\* date) the advanced forecast has no NaN or Infinity and equals the basic
\* strategy's output.
C3_ZeroDenominatorFallsBack ==
  (phase = "done" /\ method = "advanced"
     /\ Len(history) >= MinRegressionPoints /\ SameDates(history)) =>
    /\ result = _generate_basic_forecast(history, args)
    /\ \A i \in 1..Len(Points) : IsFinite(Points[i].value)
    /\ result[1].metadata.slope.kind \in {"fin", "none"}
    /\ result[1].metadata.intercept.kind \in {"fin", "none"}

\* C4: advanced forecast, at least 5 points, confidence_level non-null in
\* [0, 1]: every point has both bounds, lower <= value <= upper, all finite.
C4_BoundsBracketValue ==
  (phase = "done" /\ method = "advanced"
     /\ Len(history) >= MinRegressionPoints
     /\ args.confidence_level.some
     /\ args.confidence_level.v >= 0 /\ args.confidence_level.v <= 100) =>
    \A i \in 1..Len(Points) :
      /\ Points[i].confidence_lower # NoFloat
      /\ Points[i].confidence_upper # NoFloat
      /\ IsFinite(Points[i].value)
      /\ IsFinite(Points[i].confidence_lower)
      /\ IsFinite(Points[i].confidence_upper)
      /\ FLeq(Points[i].confidence_lower, Points[i].value)
      /\ FLeq(Points[i].value, Points[i].confidence_upper)

\* C6: a basic forecast over empty history succeeds with value exactly 0.0
\* on every day of the range and no confidence bounds.
C6_EmptyHistoryZeroFill ==
  (phase = "done" /\ method = "basic" /\ history = <<>>) =>
    /\ Len(result) = 1
    /\ Len(Points) = Len(date_range(args.start_date, args.end_date))
    /\ \A i \in 1..Len(Points) :
         /\ Points[i].value = Fin(0, 1)
         /\ Points[i].confidence_lower = NoFloat
         /\ Points[i].confidence_upper = NoFloat

C6_Witness ==
  /\ phase = "done" /\ method = "basic" /\ history = <<>>
  /\ Len(Points) >= 2

RECURSIVE IntSum(_)
IntSum(s) == IF s = <<>> THEN 0 ELSE s[1] + IntSum(Tail(s))

\* the arithmetic mean of the historical values, as a fraction
HistoricalMean(h) == Fin(IntSum([i \in 1..Len(h) |-> h[i].value]), Len(h))

\* C7: a basic forecast over non-empty history gives every point the
\* arithmetic mean of all historical values, whatever the target range.
C7_BasicIsHistoricalMean ==
  (phase = "done" /\ method = "basic" /\ history # <<>>) =>
    \A i \in 1..Len(Points) : Points[i].value = HistoricalMean(history)

C7_Witness ==
  /\ phase = "done" /\ method = "basic"
  /\ Len(history) >= 3
  /\ \E i, j \in 1..Len(history) : history[i].value # history[j].value
  /\ Len(Points) >= 2

\* C8: an advanced forecast over fewer than 5 points equals the basic
\* forecast on the same history and parameters: same values, no bounds even
\* with confidence_level set, model simple_moving_average.
C8_SmallHistoryFallsBack ==
  (phase = "done" /\ method = "advanced" /\ Len(history) < MinRegressionPoints) =>
    /\ result = _generate_basic_forecast(history, args)
    /\ result[1].metadata.model_type = "simple_moving_average"
    /\ \A i \in 1..Len(Points) :
         /\ Points[i].confidence_lower = NoFloat
         /\ Points[i].confidence_upper = NoFloat

C8_Witness ==
  /\ phase = "done" /\ method = "advanced"
  /\ Len(history) = MinRegressionPoints - 1
  /\ Truthy(args.confidence_level)
  /\ Len(Points) >= 2

----------------------------------------------------------------------------
(* Properties of the forecast service *)

ModelUsed == result[1].metadata.model_type

\* the constant projection of the historical mean, 0.0 without history
IsMeanProjection ==
  /\ ModelUsed = "simple_moving_average"
  /\ \A i \in 1..Len(Points) :
       /\ Points[i].value = (IF history = <<>> THEN Fin(0, 1) ELSE HistoricalMean(history))
       /\ Points[i].confidence_lower = NoFloat
       /\ Points[i].confidence_upper = NoFloat

\* C5 as claimed: on every orchestration path, the 180-day one included, the
\* strategy follows params.forecast_type, so forecast_type basic yields the
\* constant mean projection with model simple_moving_average.
C5_StrategyByTypeOnEveryPath ==
  (phase = "done" /\ entry # "none" /\ args.forecast_type = BASIC) => IsMeanProjection

\* C5 as amended: get_forecasts selects the strategy by forecast_type
\* (regression only for advanced and predictive, over at least 5 points);
\* generate_advanced_forecast always runs the advanced strategy, whatever
\* forecast_type says: regression over at least 5 points, else the constant
\* mean projection.
C5_StrategyByEntryPoint ==
  (phase = "done" /\ entry # "none") =>
    /\ Len(result) = 1
    /\ result[1].parameters = args
    /\ entry = "get_forecasts" =>
         (ModelUsed = "linear_regression" <=>
            (args.forecast_type \in {ADVANCED, PREDICTIVE}
               /\ Len(history) >= MinRegressionPoints))
    /\ entry = "generate_advanced_forecast" =>
         (ModelUsed = "linear_regression" <=> Len(history) >= MinRegressionPoints)
    /\ ModelUsed # "linear_regression" => IsMeanProjection

C5_Witness ==
  /\ phase = "done" /\ entry = "generate_advanced_forecast"
  /\ args.forecast_type = BASIC
  /\ Len(history) >= MinRegressionPoints
  /\ ModelUsed = "linear_regression"

\* the rows of the sheet inside the history window that pass the filters
MatchingRows ==
  FilterRows(sheet.rows, args.start_date - Lookback(entry), args.start_date - 1,
             args.sales_rep_id, args.category)

\* C9: when the source answers and holds zero rows matching the window and
\* the filters (filtered out, or no data rows at all), the fetch succeeds
\* with an empty series and the request succeeds with the zero-fill.
C9_ZeroRowsStillSucceeds ==
  (entry # "none" /\ sheet.status_code = 200 /\ MatchingRows = <<>>) =>
    /\ phase \in {"fetched", "done"}
    /\ history = <<>>
    /\ phase = "done" =>
         /\ Len(Points) = Len(date_range(args.start_date, args.end_date))
         /\ \A i \in 1..Len(Points) : Points[i].value = Fin(0, 1)

\* C10: a failed fetch propagates: no ForecastResponse is produced and the
\* failure is never turned into empty history, so a forecast over empty
\* history is returned only after a fetch that succeeded with zero rows.
C10_FetchFailurePropagates ==
  /\ (entry # "none" /\ sheet.status_code # 200) =>
       (phase = "failed" /\ result = <<>> /\ error = 500)
  /\ phase = "failed" => result = <<>>
  /\ (phase = "done" /\ entry # "none" /\ history = <<>>) =>
       (sheet.status_code = 200 /\ MatchingRows = <<>>)

C10_Witness ==
  /\ phase = "failed" /\ entry # "none"
  /\ sheet.status_code # 200
  /\ result = <<>>

----------------------------------------------------------------------------
(* Properties of the schema and of repeated and unknown-type requests *)

\* C11: ForecastParameters with a confidence_level outside [0.0, 1.0] is
\* rejected with a validation error and never reaches the engine.
C11_OutOfRangeConfidenceRejected ==
  (args.confidence_level.some
     /\ (args.confidence_level.v < 0 \/ args.confidence_level.v > 100)) =>
    phase \in {"args", "rejected"}

\* C12: get_forecasts with a forecast_type that is none of basic, advanced,
\* predictive returns what forecast_type basic returns on the same history
\* and range: same data_points, model simple_moving_average, no error.
C12_UnknownTypeIsBasic ==
  (phase = "done" /\ entry = "get_forecasts"
     /\ args.forecast_type \notin {BASIC, ADVANCED, PREDICTIVE}) =>
    /\ error = 0
    /\ Len(result) = 1
    /\ Points = get_forecasts(history, [args EXCEPT !.forecast_type = BASIC])[1].data_points
    /\ IsMeanProjection

C12_Witness ==
  /\ phase = "done" /\ entry = "get_forecasts"
  /\ args.forecast_type = "weekly"
  /\ Len(history) >= MinRegressionPoints
  /\ ModelUsed = "simple_moving_average"

\* C13: the engine run twice on the same history and parameters yields the
\* same data_points (dates, values, bounds, is_actual).
C13_RerunSameDataPoints ==
  phase = "rerun" => result[1].data_points = previous[1].data_points

C13_Witness ==
  /\ phase = "rerun" /\ method = "advanced"
  /\ Len(history) >= MinRegressionPoints
  /\ ~SameDates(history)
  /\ "days" \in DOMAIN history[1]
  /\ Len(Points) >= 2
  /\ Points[1].confidence_lower # NoFloat

\* C14: no engine call changes the historical series it was given: same
\* records, same fields.
C14_HistoryNeverMutated == [][history' = history]_vars

----------------------------------------------------------------------------
(* Properties of the regression and of its confidence bounds *)

\* a < b on floats; any comparison with NaN is false
FLt(a, b) == FLeq(a, b) /\ ~FLeq(b, a)

\* C15: advanced forecast with confidence bounds: every point carries both
\* bounds at the same margin 1.96 * std of the residuals around its value,
\* and any other non-null confidence_level on the same history gives the
\* same data_points.
C15_MarginIgnoresLevel ==
  (phase = "done" /\ method = "advanced"
     /\ Len(history) >= MinRegressionPoints
     /\ args.confidence_level.some) =>
    /\ \A i \in 1..Len(Points) :
         /\ Points[i].confidence_lower =
              WithMargin(Points[i].value, -1,
                         ResidualVariance(history, Regression(history)))
         /\ Points[i].confidence_upper =
              WithMargin(Points[i].value, 1,
                         ResidualVariance(history, Regression(history)))
    /\ \A c \in {l \in ConfidenceLevels : l.some} :
         Points = _generate_advanced_forecast(
                    history, [args EXCEPT !.confidence_level = c])[1].data_points

\* C16: advanced forecast requested with a confidence level over at least 5
\* points: every point has both bounds and lower < value < upper strictly.
C16_BoundsStrictlyBracket ==
  (phase = "done" /\ method = "advanced"
     /\ Len(history) >= MinRegressionPoints
     /\ args.confidence_level.some) =>
    \A i \in 1..Len(Points) :
      /\ Points[i].confidence_lower # NoFloat
      /\ Points[i].confidence_upper # NoFloat
      /\ FLt(Points[i].confidence_lower, Points[i].value)
      /\ FLt(Points[i].value, Points[i].confidence_upper)

\* sum over i of dx[i] * dy[i]: the covariance sum of least squares
ElementwiseProductSum(dx, dy) ==
  SumSeq([i \in 1..Len(dx) |-> FMul(dx[i], dy[i])])

\* the ordinary-least-squares line of value against days since the earliest
\* historical date
LeastSquares(h) ==
  LET X == [i \in 1..Len(h) |-> FromInt(DaysColumn(h)[i])]
      y == ValueColumn(h)
      dx == [i \in 1..Len(X) |-> FSub(X[i], Mean(X))]
      dy == [i \in 1..Len(y) |-> FSub(y[i], Mean(y))]
      slope == FDiv(ElementwiseProductSum(dx, dy), ElementwiseProductSum(dx, dx))
  IN [slope |-> slope, intercept |-> FSub(Mean(y), FMul(slope, Mean(X)))]

\* C17: advanced forecast over at least 5 points with two distinct dates:
\* slope and intercept are the least-squares coefficients, every value is
\* intercept + slope * days since the earliest historical date, and
\* consecutive values differ by slope.
C17_AdvancedIsLeastSquares ==
  (phase = "done" /\ method = "advanced"
     /\ Len(history) >= MinRegressionPoints /\ ~SameDates(history)) =>
    LET fit == LeastSquares(history)
        first == MinOf([i \in 1..Len(history) |-> history[i].date])
    IN /\ result[1].metadata.slope = fit.slope
       /\ result[1].metadata.intercept = fit.intercept
       /\ \A i \in 1..Len(Points) :
            Points[i].value =
              FAdd(fit.intercept, FMul(fit.slope, FromInt(Points[i].date - first)))
       /\ \A i \in 1..(Len(Points) - 1) :
            FSub(Points[i + 1].value, Points[i].value) = fit.slope

----------------------------------------------------------------------------
(* Properties of a whole service call *)

\* C18: a successful get_forecasts or generate_advanced_forecast returns
\* exactly one ForecastResponse whose parameters are the ones passed in; a
\* failed call, and a call still in progress, has produced none.
C18_OneResponseOrNone ==
  /\ (phase = "done" /\ entry # "none") =>
       /\ error = 0
       /\ Len(result) = 1
       /\ result[1].parameters = args
       /\ result[1].metadata.data_points_count = Len(Points)
  /\ phase \in {"constructed", "fetched", "failed"} => result = <<>>
  /\ phase = "failed" => error # 0

C18_Witness ==
  /\ phase = "done" /\ entry = "generate_advanced_forecast"
  /\ args.forecast_type = PREDICTIVE
  /\ args.confidence_level = Some(95)
  /\ args.sales_rep_id.some
  /\ Len(Points) >= 2
  /\ result[1].parameters = args

\* what a call returns when it is the only one in flight
RunAlone(sh, e, params) ==
  LET fetched == FetchHistory(sh, e, params)
  IN IF ~fetched.ok THEN <<>>
     ELSE IF e = "get_forecasts" THEN get_forecasts(fetched.df, params)
     ELSE generate_advanced_forecast(fetched.df, params)

\* C19: whatever the interleaving at the await of the fetch, every request
\* returns the data_points it would return alone with its own parameters,
\* and a request fails exactly when it would fail alone.
C19_ConcurrentAsAlone ==
  \A i \in Requests :
    LET alone == RunAlone(sheet, reqs[i].entry, reqs[i].params)
    IN /\ reqs[i].pc = "done" =>
            /\ Len(reqs[i].result) = 1
            /\ alone # <<>>
            /\ reqs[i].result[1].data_points = alone[1].data_points
            /\ reqs[i].result[1].parameters = reqs[i].params
       /\ reqs[i].pc = "failed" =>
            /\ reqs[i].result = <<>>
            /\ alone = <<>>

\* two requests that overlapped (the later one to start finished first) and
\* returned different data_points
C19_Witness ==
  \E i, j \in Requests :
    /\ reqs[i].pc = "done" /\ reqs[j].pc = "done"
    /\ reqs[i].started < reqs[j].started
    /\ reqs[j].finished < reqs[i].finished
    /\ reqs[i].params # reqs[j].params
    /\ reqs[i].result[1].data_points # reqs[j].result[1].data_points
    /\ reqs[i].result[1].metadata.model_type = "linear_regression"

----------------------------------------------------------------------------
(* Properties of the endpoints *)

\* C20: on both forecast endpoints, a fetch or a forecast has happened only
\* if the bearer token was valid and named a stored user; a request whose
\* token is invalid or names no stored user is answered 401 and has
\* triggered no fetch and no forecast.
C20_AuthBeforeFetch ==
  /\ (fetches > 0 \/ result # <<>> \/ entry # "none") =>
       /\ jwt_decode(token)
       /\ current_user.some
       /\ current_user.v \in UserIds
       /\ SubStr(current_user.v) = token.sub
  /\ (phase # "request"
        /\ ~(jwt_decode(token) /\ TokenPayloadAccepts(token)
               /\ token.sub.v \in UserIds)) =>
       /\ phase = "failed"
       /\ error = 401
       /\ fetches = 0
       /\ result = <<>>
       /\ current_user = None

C20_Witness ==
  /\ phase = "done"
  /\ token = Token(SECRET_KEY, FALSE, SubStr(1), FALSE)
  /\ current_user = Some(1)
  /\ fetches = 1
  /\ Len(result) = 1
  /\ Len(Points) >= 2

----------------------------------------------------------------------------
(* Properties of the auth endpoints *)

\* the stored users a login form names: same email, matching password hash
Claimed(form_data) ==
  {i \in DOMAIN users :
     /\ users[i].email = form_data.username
     /\ users[i].hashed_password = _get_password_hash(form_data.password)}

\* C21: POST /auth/login issues a token exactly when the email is a stored
\* user's, the password matches that user's hash and the user is active; an
\* unknown email and a wrong password both give 401 'Incorrect email or
\* password', an inactive user gives 400 'Inactive user', and no failure
\* issues a token.
C21_LoginIssuesTokenIffValid ==
  op.name = "login" =>
    LET claimed == Claimed(op.input)
        granted == {i \in claimed : users[i].is_active}
    IN /\ (op.issued # NoToken) <=> (granted # {})
       /\ op.issued # NoToken =>
            /\ op.status_code = 200
            /\ op.issued.sub.v \in granted
       /\ claimed = {} =>
            /\ op.status_code = 401
            /\ op.detail = "Incorrect email or password"
       /\ (claimed # {} /\ granted = {}) =>
            /\ op.status_code = 400
            /\ op.detail = "Inactive user"
       /\ op.status_code # 200 => op.issued = NoToken

\* a login refused for an inactive registered user with the right password
C21_Witness ==
  /\ op.name = "login"
  /\ op.status_code = 400
  /\ op.input.username = "new@example.com"
  /\ op.input.password = "newpassword"
  /\ op.issued = NoToken

\* C22: POST /auth/refresh with a valid bearer token issues a token whose
\* subject is the user the presented token identifies, never another id.
C22_RefreshKeepsSubject ==
  (op.name = "refresh" /\ get_current_user(op.input.token).ok) =>
    /\ op.status_code = 200
    /\ op.issued # NoToken
    /\ op.issued.sub.v = get_current_user(op.input.token).user.v

\* C28: a token create_access_token issued for an existing user's id,
\* presented before its expiry, is accepted by get_current_user, which
\* returns the user with that id.
C28_IssuedTokenAccepted ==
  (op.name = "get_current_user"
     /\ token.key = SECRET_KEY /\ ~token.expired
     /\ token.sub.v \in UserIds) =>
    /\ op.status_code = 200
    /\ current_user = Some(token.sub.v)

----------------------------------------------------------------------------
(* Properties of the user store *)

\* C29: after any sequence of create_user and update_user calls no two
\* stored users share an email address and every stored user's id is its
\* key in the store.
C29_UniqueEmailsAndIds ==
  /\ \A i, j \in DOMAIN users : i # j => users[i].email # users[j].email
  /\ \A i \in DOMAIN users : users[i].id = i

\* C30: a create_user or update_user call that raises leaves the store as
\* it was before the call.
C30_RaisingCallLeavesStore ==
  [][(op'.name \in {"create_user", "update_user"} /\ op'.status_code # 200)
       => users' = users]_vars

----------------------------------------------------------------------------
(* Properties of the predictive method and of the metadata *)

\* C23: a predictive forecast returns what an advanced forecast returns on
\* the same history and parameters: same data_points, same metadata, the
\* basic projection below 5 points.
C23_PredictiveIsAdvanced ==
  (phase = "done" /\ method = "predictive") =>
    /\ result = _generate_advanced_forecast(history, args)
    /\ Len(history) < MinRegressionPoints => IsMeanProjection
    /\ Len(history) >= MinRegressionPoints => ModelUsed = "linear_regression"

C23_Witness ==
  /\ phase = "done" /\ method = "predictive"
  /\ Len(history) >= MinRegressionPoints
  /\ ~SameDates(history)
  /\ args.confidence_level = Some(95)
  /\ Len(Points) >= 2
  /\ ModelUsed = "linear_regression"

\* the regression branch ran: an advanced or predictive call on 5 points or more
RegressionRan ==
  method \in {"advanced", "predictive"} /\ Len(history) >= MinRegressionPoints

\* C24: model_type is linear_regression, with the slope and intercept the
\* values were computed from, exactly when the regression ran; otherwise it
\* is simple_moving_average over the constant or zero projection, fallbacks
\* included; data_points_count is the number of data_points.
C24_MetadataNamesModel ==
  phase = "done" =>
    /\ result[1].metadata.data_points_count = Len(Points)
    /\ RegressionRan <=> (ModelUsed = "linear_regression")
    /\ ~RegressionRan =>
         /\ IsMeanProjection
         /\ result[1].metadata.slope = NoFloat
         /\ result[1].metadata.intercept = NoFloat
    /\ RegressionRan =>
         LET first == MinOf([i \in 1..Len(history) |-> history[i].date])
         IN /\ result[1].metadata.slope # NoFloat
            /\ result[1].metadata.intercept # NoFloat
            /\ result[1].metadata.slope = Regression(history).slope
            /\ \A i \in 1..Len(Points) :
                 Points[i].value =
                   FAdd(result[1].metadata.intercept,
                        FMul(result[1].metadata.slope, FromInt(Points[i].date - first)))

\* a fallback from the predictive method, labelled as the basic model
C24_Witness ==
  /\ phase = "done" /\ method = "predictive"
  /\ Len(history) = MinRegressionPoints - 1
  /\ Len(Points) >= 2
  /\ ModelUsed = "simple_moving_average"
  /\ result[1].metadata.data_points_count = Len(Points)

----------------------------------------------------------------------------
(* Properties of the historical fetch *)

\* C25: the history fetched is the sheet's rows dated within
\* [start_date - N, start_date - 1], N = 90 for get_forecasts and 180 for
\* generate_advanced_forecast, that pass the request's sales_rep_id and
\* category filters; no row dated start_date or later is in it.
C25_HistoryWindow ==
  phase = "fetched" =>
    LET N == IF entry = "get_forecasts" THEN 90 ELSE 180
        InWindow(r) ==
          /\ r.date >= args.start_date - N
          /\ r.date <= args.start_date - 1
          /\ (args.sales_rep_id.some => r.sales_rep_id = IntCell(args.sales_rep_id.v))
          /\ (args.category.some => r.category = args.category.v)
    IN /\ history = SelectSeq(sheet.rows, InWindow)
       /\ \A i \in 1..Len(history) : history[i].date < args.start_date

\* the 180-day fetch with both filters, holding the row of its first day
C25_Witness ==
  /\ phase = "fetched" /\ entry = "generate_advanced_forecast"
  /\ args.sales_rep_id = Some(1) /\ args.category = Some("a")
  /\ Len(history) = 4
  /\ \E i \in 1..Len(history) : history[i].date = args.start_date - 180
  /\ \E i \in 1..Len(sheet.rows) : sheet.rows[i].date = args.start_date

\* C26: a request fetches exactly once, before any computation: none
\* before the service call, one from then on, whether the fetch failed or
\* the advanced method fell back to basic on the history fetched.
C26_FetchExactlyOnce ==
  /\ phase \in {"args", "constructed", "rejected"} =>
       (fetches = 0 /\ result = <<>>)
  /\ phase \in {"fetched", "failed", "done"} => fetches = 1
  /\ result # <<>> => fetches = 1
  /\ (phase = "done" /\ method \in {"advanced", "predictive"}
        /\ Len(history) < MinRegressionPoints) => IsMeanProjection

\* a fallback to basic over a fetched history of fewer than 5 rows
C26_Witness ==
  /\ phase = "done" /\ method = "advanced"
  /\ Len(history) > 0 /\ Len(history) < MinRegressionPoints
  /\ fetches = 1
  /\ IsMeanProjection

\* C27: get_sales_data returns exactly the sheet's rows dated within the
\* closed range that equal the integer sales_rep_id and the category when
\* given, in sheet order; it raises exactly when the transport or the
\* parsing failed.
C27_ExactRowsOrError ==
  entry # "none" =>
    LET lo == args.start_date - Lookback(entry)
        hi == args.start_date - 1
        Wanted(r) ==
          /\ r.date >= lo /\ r.date <= hi
          /\ (args.sales_rep_id.some => r.sales_rep_id = IntCell(args.sales_rep_id.v))
          /\ (args.category.some => r.category = args.category.v)
    IN IF sheet.status_code # 200
       THEN phase = "failed" /\ error # 0
       ELSE /\ phase \in {"fetched", "done"}
            /\ phase = "fetched" => history = SelectSeq(sheet.rows, Wanted)

====
